---- MODULE Spec2Model ----
(***************************************************************************)
(* One chat turn of the cognition engine of plexo:                         *)
(*   - message_to_chat_completion and chat_response                        *)
(*     (crates/plexo-sdk/src/cognition/suggestions.rs),                    *)
(*   - ChatResponseChunk (crates/plexo-sdk/src/cognition/v2/chat.rs),      *)
(*   - the GraphQL chat mutation and chat subscription                     *)
(*     (crates/plexo-core/src/api/graphql/processors/ai.rs).               *)
(* A Rust panic (unwrap on None/Err, todo!()) unwinds the whole operation  *)
(* and is kept apart from a returned error value.                          *)
(***************************************************************************)
EXTENDS Integers, Sequences, FiniteSets, TLC

\* ------------------------------------------------------------------ bounds
\* Provider events the provider sends during one turn.
MaxEvents == 3
\* Messages in the chat history of the turn.
MaxHistory == 2

\* -------------------------------------------------------- program constants
\* .max_tokens(1024u16) of the streaming request.
MaxTokens == 1024

\* ------------------------------------------------------------------ options
\* Option<T>: None is the empty sequence, Some(x) the one-element sequence.
None == <<>>
Some(x) == <<x>>
IsSome(o) == o # <<>>
Unwrap(o) == o[1]

\* ----------------------------------------------------------------- messages
\* Message.content is a JSON text. It is modelled by what serde_json::from_str
\* makes of it: no value at all (the text is not JSON), a JSON value that is
\* not an object, or an object with an optional "role" member (a JSON string
\* or some other JSON value) and a "content" member.
RoleStrings == {"user", "assistant", "tool", "function", "system"}
JsonRoles == {None, Some([str |-> FALSE, s |-> ""])}
             \cup {Some([str |-> TRUE, s |-> r]) : r \in RoleStrings}
MessageTexts == {"hi"}
Payloads == {[json |-> "invalid", role |-> None, content |-> ""],
             [json |-> "array", role |-> None, content |-> ""]}
            \cup {[json |-> "object", role |-> r, content |-> c] :
                    r \in JsonRoles, c \in MessageTexts}
Messages == {[content |-> p] : p \in Payloads}

\* The outcome of a call: a value, or a panic at a source line.
Ok(v) == [panic |-> FALSE, at |-> 0, value |-> Some(v)]
Panic(line) == [panic |-> TRUE, at |-> line, value |-> None]

\* serde_json::from_value(val) into the request message type of a variant:
\* the turn carries the role and the content members of the object.
FromValue(variant, val) ==
    [variant |-> variant, role |-> Unwrap(val.role).s, content |-> val.content]

message_to_chat_completion(message) ==
    LET val == message.content
    IN  IF val.json = "invalid" THEN Panic(183)
        ELSE IF val.json # "object" THEN Panic(192)
        ELSE IF ~IsSome(val.role) THEN Panic(186)
        ELSE IF ~Unwrap(val.role).str THEN Panic(186)
        ELSE IF Unwrap(val.role).s = "user" THEN Ok(FromValue("User", val))
        ELSE IF Unwrap(val.role).s = "assistant"
             THEN Ok(FromValue("Assistant", val))
        ELSE IF Unwrap(val.role).s \in {"tool", "function"} THEN Panic(189)
        ELSE Panic(190)

\* ---------------------------------------------------------- provider events
\* An item of the provider stream: Err(_), or Ok(response) of which the code
\* reads choices.first() and its delta.content. A tool-call delta carries its
\* index and the parts it supplies; an end-of-turn delta carries a finish
\* reason; a response may also come with no choice at all.
DeltaTexts == {"a", "bc"}
ToolDeltas ==
    {[index |-> 0, id |-> Some("call_0"), type |-> Some("function"),
      name |-> Some("create_task"), arguments |-> None],
     [index |-> 0, id |-> None, type |-> None, name |-> None,
      arguments |-> Some("x")],
     [index |-> 1, id |-> None, type |-> None, name |-> None,
      arguments |-> Some("y")]}
ContentEvent(t) ==
    [ok |-> TRUE, choices |-> 1, content |-> Some(t), tool |-> None, finish |-> FALSE]
EndEvent ==
    [ok |-> TRUE, choices |-> 1, content |-> None, tool |-> None, finish |-> TRUE]
ToolEvent(td) ==
    [ok |-> TRUE, choices |-> 1, content |-> None, tool |-> Some(td), finish |-> FALSE]
UnknownEvent ==
    [ok |-> TRUE, choices |-> 1, content |-> None, tool |-> None, finish |-> FALSE]
NoChoiceEvent ==
    [ok |-> TRUE, choices |-> 0, content |-> None, tool |-> None, finish |-> FALSE]
FailEvent ==
    [ok |-> FALSE, choices |-> 0, content |-> None, tool |-> None, finish |-> FALSE]
Events == {ContentEvent(t) : t \in DeltaTexts}
          \cup {ToolEvent(td) : td \in ToolDeltas}
          \cup {EndEvent, UnknownEvent, NoChoiceEvent, FailEvent}

IsContent(ev) == ev.ok /\ IsSome(ev.content)
IsEnd(ev) == ev.ok /\ ev.finish
IsTool(ev) == ev.ok /\ IsSome(ev.tool)
IsUnknown(ev) == ev = UnknownEvent
IsFail(ev) == ~ev.ok

VARIABLES
    mode,          \* which GraphQL operation runs the turn
    history,       \* the chat history handed to chat_response
    pc,            \* position of the operation
    conversation,  \* conversation_messages of chat_response
    request,       \* Option: the provider request built by chat_response
    opened,        \* create_stream has been called and returned a stream
    released,      \* the provider stream handle has been dropped
    chan,          \* provider events sent and not yet read
    chanClosed,    \* the provider has ended its stream
    readLog,       \* provider events read by the stream! block, in order
    gen,           \* state of the stream! block
    message,       \* cumulative message of the chunk sequence
    item,          \* Option<Option<chunk>>: what the last next() returned
    chunks,        \* chunks the chunk sequence has produced, in order
    last_chunk,    \* last_chunk of the chat mutation
    delivered,     \* chunks forwarded to the subscriber
    result,        \* Option: what the chat mutation returned
    panicAt,       \* source line of the panic that unwound the turn, or 0
    turns,         \* two turns running concurrently (SpecTurns)
    fpIn,          \* input of a fingerprint operation (SpecFingerprints)
    fpOut          \* Option: what the fingerprint operation produced

turnVars == <<mode, history, pc, conversation, request, opened, released, chan,
              chanClosed, readLog, gen, message, item, chunks, last_chunk,
              delivered, result, panicAt>>
vars == <<turnVars, turns, fpIn, fpOut>>

Histories == UNION {[1..n -> Messages] : n \in 0..MaxHistory}

Init ==
    /\ mode \in {"mutation", "subscription"}
    /\ history \in Histories
    /\ pc = "start"
    /\ conversation = <<>>
    /\ request = None
    /\ opened = FALSE
    /\ released = FALSE
    /\ chan = <<>>
    /\ chanClosed = FALSE
    /\ readLog = <<>>
    /\ gen = "none"
    /\ message = ""
    /\ item = None
    /\ chunks = <<>>
    /\ last_chunk = None
    /\ delivered = <<>>
    /\ result = None
    /\ panicAt = 0
    /\ turns = <<>>
    /\ fpIn = None
    /\ fpOut = None

\* ------------------------------------------------------------ chat_response
SystemMessage == "system prompt"
SystemTurn == [variant |-> "System", role |-> "system", content |-> SystemMessage]

\* messages.iter().map(Self::message_to_chat_completion).collect()
AdaptAll(h) == [i \in 1..Len(h) |-> message_to_chat_completion(h[i])]
FirstPanic(outs) ==
    LET bad == {i \in 1..Len(outs) : outs[i].panic}
    IN  IF bad = {} THEN 0
        ELSE outs[CHOOSE i \in bad : \A j \in bad : i <= j].at

\* Mutant: the system turn is pushed after the conversation.
BuildMessages_SystemLast(conv) == conv \o <<SystemTurn>>

\* vec![system] followed by the adapted conversation, and the request built
\* from it with the create_task function and the "auto" call policy.
BuildMessages(conv) == <<SystemTurn>> \o conv
BuildRequestValue(conv) ==
    [max_tokens |-> MaxTokens,
     messages |-> BuildMessages(conv),
     functions |-> <<"create_task">>,
     function_call |-> "auto"]

\* Mutant: the arms of the match are confused, a content delta ends the loop.
DeltaStep_SwallowsContent(ev) ==
    IF ~ev.ok \/ ev.choices = 0 THEN [kind |-> "panic", text |-> ""]
    ELSE [kind |-> "break", text |-> ""]

\* Mutant: a delta without content is yielded as an empty text instead of
\* ending the loop.
DeltaStep_EmptyTrailing(ev) ==
    IF ~ev.ok \/ ev.choices = 0 THEN [kind |-> "panic", text |-> ""]
    ELSE IF IsSome(ev.content) THEN [kind |-> "yield", text |-> Unwrap(ev.content)]
    ELSE [kind |-> "yield", text |-> ""]

\* What one pass of the while-let loop of the stream! block does with the
\* item response.next() returned: unwrap() panics on Err and on an empty
\* choices list, Some(content) is yielded, a delta without content breaks
\* out of the loop.
DeltaStep(ev) ==
    IF ~ev.ok \/ ev.choices = 0 THEN [kind |-> "panic", text |-> ""]
    ELSE IF IsSome(ev.content) THEN [kind |-> "yield", text |-> Unwrap(ev.content)]
    ELSE [kind |-> "break", text |-> ""]

\* Mutant: the chunk repeats the delta as its message, nothing accumulates.
MakeChunk_DeltaOnly(prior, text) ==
    [delta |-> text, message |-> text, message_id |-> None, tool_calls |-> None]

\* The chunk the chunk sequence makes of a yielded text.
MakeChunk(prior, text) ==
    [delta |-> text, message |-> prior \o text, message_id |-> None,
     tool_calls |-> None]

\* ------------------------------------------------------- the chat mutation
\* Mutant: the first chunk is kept instead of the last.
KeepChunk_First(last, chunk) == IF IsSome(last) THEN last ELSE Some(chunk)

\* last_chunk = Some(chunk) in the body of the while-let loop.
KeepChunk(last, chunk) == Some(chunk)
\* Mutant: unwrap_or_default() instead of ok_or(error).
DrainResult_Default(last) ==
    IF IsSome(last) THEN [ok |-> TRUE, chunk |-> last, error |-> ""]
    ELSE [ok |-> TRUE,
          chunk |-> Some([delta |-> "", message |-> "", message_id |-> None,
                          tool_calls |-> None]),
          error |-> ""]

\* last_chunk.ok_or(SDKError::LLMStreamError.into())
DrainResult(last) ==
    IF IsSome(last) THEN [ok |-> TRUE, chunk |-> last, error |-> ""]
    ELSE [ok |-> FALSE, chunk |-> None, error |-> "LLMStreamError"]

\* -------------------------------------------------------------------- steps
\* Line of the operation that runs the turn, by its first and second line.
OperationLine(mutationLine, subscriptionLine) ==
    IF mode = "mutation" THEN mutationLine ELSE subscriptionLine

\* extract_context(ctx) returned Ok: get_chat_response(input) is called.
ExtractContext ==
    /\ pc = "start"
    /\ pc' = "adapt"
    /\ UNCHANGED <<mode, history, conversation, request, opened, released, chan,
                   chanClosed, readLog, gen, message, item, chunks, last_chunk,
                   delivered, result, panicAt, turns, fpIn, fpOut>>

\* extract_context(ctx) returned Err: unwrap() panics.
ExtractContextFail ==
    /\ pc = "start"
    /\ pc' = "panicked"
    /\ panicAt' = OperationLine(81, 97)
    /\ UNCHANGED <<mode, history, conversation, request, opened, released, chan,
                   chanClosed, readLog, gen, message, item, chunks, last_chunk,
                   delivered, result, turns, fpIn, fpOut>>

\* get_chat_response(input).await returned Err before any provider request
\* was made: unwrap() panics.
GetChatResponseErr ==
    /\ pc = "adapt"
    /\ pc' = "panicked"
    /\ panicAt' = OperationLine(83, 99)
    /\ UNCHANGED <<mode, history, conversation, request, opened, released, chan,
                   chanClosed, readLog, gen, message, item, chunks, last_chunk,
                   delivered, result, turns, fpIn, fpOut>>

Adapt ==
    /\ pc = "adapt"
    /\ LET outs == AdaptAll(history)
       IN  IF FirstPanic(outs) # 0
           THEN /\ pc' = "panicked"
                /\ panicAt' = FirstPanic(outs)
                /\ UNCHANGED conversation
           ELSE /\ pc' = "build"
                /\ conversation' = [i \in 1..Len(outs) |-> Unwrap(outs[i].value)]
                /\ UNCHANGED panicAt
    /\ UNCHANGED <<mode, history, request, opened, released, chan, chanClosed,
                   readLog, gen, message, item, chunks, last_chunk, delivered,
                   result>>
    /\ UNCHANGED <<turns, fpIn, fpOut>>

BuildRequest ==
    /\ pc = "build"
    /\ request' = Some(BuildRequestValue(conversation))
    /\ pc' = "open"
    /\ UNCHANGED <<mode, history, conversation, opened, released, chan,
                   chanClosed, readLog, gen, message, item, chunks, last_chunk,
                   delivered, result, panicAt>>
    /\ UNCHANGED <<turns, fpIn, fpOut>>

\* create_stream(request).await returned Ok(stream): the stream! block is
\* created around it and handed to the operation.
CreateStream ==
    /\ pc = "open"
    /\ opened' = TRUE
    /\ gen' = "suspended"
    /\ pc' = "loop"
    /\ UNCHANGED <<mode, history, conversation, request, released, chan,
                   chanClosed, readLog, message, item, chunks, last_chunk,
                   delivered, result, panicAt>>
    /\ UNCHANGED <<turns, fpIn, fpOut>>

\* create_stream(request).await returned Err: unwrap() panics.
CreateStreamFail ==
    /\ pc = "open"
    /\ pc' = "panicked"
    /\ panicAt' = 168
    /\ UNCHANGED <<mode, history, conversation, request, opened, released, chan,
                   chanClosed, readLog, gen, message, item, chunks, last_chunk,
                   delivered, result>>
    /\ UNCHANGED <<turns, fpIn, fpOut>>

\* The provider sends one more event of the turn.
ProviderSend ==
    /\ opened
    /\ ~released
    /\ ~chanClosed
    /\ Len(readLog) + Len(chan) < MaxEvents
    /\ \E ev \in Events : chan' = Append(chan, ev)
    /\ UNCHANGED <<mode, history, pc, conversation, request, opened, released,
                   chanClosed, readLog, gen, message, item, chunks, last_chunk,
                   delivered, result, panicAt>>
    /\ UNCHANGED <<turns, fpIn, fpOut>>

\* The provider ends its stream: response.next() returns None once the
\* events already sent have been read.
ProviderClose ==
    /\ opened
    /\ ~released
    /\ ~chanClosed
    /\ chanClosed' = TRUE
    /\ UNCHANGED <<mode, history, pc, conversation, request, opened, released,
                   chan, readLog, gen, message, item, chunks, last_chunk,
                   delivered, result, panicAt>>
    /\ UNCHANGED <<turns, fpIn, fpOut>>

\* Mutant: the loop runs ahead of its consumer, whether polled or not.
StreamPolled_Eager == gen = "suspended"

\* Mutant: the loop runs as a detached task that outlives its consumer.
StreamPolled_Detached == gen \in {"suspended", "dropped"}

\* The stream! block runs only inside a next() of its consumer.
StreamPolled == pc = "loop" /\ gen = "suspended"

\* next().await of the consumer, response.next() returned Some(event).
NextEvent ==
    /\ StreamPolled
    /\ chan # <<>>
    /\ LET ev == Head(chan)
           step == DeltaStep(ev)
           chunk == MakeChunk(message, step.text)
       IN  /\ readLog' = Append(readLog, ev)
           /\ chan' = Tail(chan)
           /\ CASE step.kind = "yield" ->
                     /\ message' = chunk.message
                     /\ chunks' = Append(chunks, chunk)
                     /\ item' = Some(Some(chunk))
                     /\ gen' = "suspended"
                     /\ pc' = "body"
                     /\ UNCHANGED <<released, panicAt>>
                [] step.kind = "break" ->
                     /\ item' = Some(None)
                     /\ gen' = "done"
                     /\ pc' = "body"
                     /\ UNCHANGED <<message, chunks, released, panicAt>>
                [] OTHER ->
                     /\ item' = None
                     /\ gen' = "panicked"
                     /\ pc' = "panicked"
                     /\ panicAt' = 174
                     /\ released' = TRUE
                     /\ UNCHANGED <<message, chunks>>
    /\ UNCHANGED <<mode, history, conversation, request, opened, chanClosed,
                   last_chunk, delivered, result>>
    /\ UNCHANGED <<turns, fpIn, fpOut>>

\* next().await of the consumer, response.next() returned None.
NextClosed ==
    /\ StreamPolled
    /\ chan = <<>>
    /\ chanClosed
    /\ item' = Some(None)
    /\ gen' = "done"
    /\ pc' = "body"
    /\ UNCHANGED <<mode, history, conversation, request, opened, released, chan,
                   chanClosed, readLog, message, chunks, last_chunk, delivered,
                   result, panicAt>>
    /\ UNCHANGED <<turns, fpIn, fpOut>>

\* Body of the while-let loop of the chat mutation.
MutationBody ==
    /\ mode = "mutation"
    /\ pc = "body"
    /\ IsSome(item) /\ IsSome(Unwrap(item))
    /\ last_chunk' = KeepChunk(last_chunk, Unwrap(Unwrap(item)))
    /\ item' = None
    /\ pc' = "loop"
    /\ UNCHANGED <<mode, history, conversation, request, opened, released, chan,
                   chanClosed, readLog, gen, message, chunks, delivered, result,
                   panicAt>>
    /\ UNCHANGED <<turns, fpIn, fpOut>>

\* next() returned None: the loop ends and the mutation returns; chat_stream
\* is dropped with the function's locals.
MutationReturn ==
    /\ mode = "mutation"
    /\ pc = "body"
    /\ IsSome(item) /\ ~IsSome(Unwrap(item))
    /\ result' = Some(DrainResult(last_chunk))
    /\ item' = None
    /\ released' = TRUE
    /\ pc' = "returned"
    /\ UNCHANGED <<mode, history, conversation, request, opened, chan,
                   chanClosed, readLog, gen, message, chunks, last_chunk,
                   delivered, panicAt>>
    /\ UNCHANGED <<turns, fpIn, fpOut>>

\* The subscription hands the stream to the subscriber: each chunk is
\* forwarded as it is produced.
SubscriptionForward ==
    /\ mode = "subscription"
    /\ pc = "body"
    /\ IsSome(item) /\ IsSome(Unwrap(item))
    /\ delivered' = Append(delivered, Unwrap(Unwrap(item)))
    /\ item' = None
    /\ pc' = "loop"
    /\ UNCHANGED <<mode, history, conversation, request, opened, released, chan,
                   chanClosed, readLog, gen, message, chunks, last_chunk, result,
                   panicAt>>
    /\ UNCHANGED <<turns, fpIn, fpOut>>

\* The stream returned None: the subscription ends and the stream is dropped.
SubscriptionEnd ==
    /\ mode = "subscription"
    /\ pc = "body"
    /\ IsSome(item) /\ ~IsSome(Unwrap(item))
    /\ item' = None
    /\ released' = TRUE
    /\ pc' = "ended"
    /\ UNCHANGED <<mode, history, conversation, request, opened, chan,
                   chanClosed, readLog, gen, message, chunks, last_chunk,
                   delivered, result, panicAt>>
    /\ UNCHANGED <<turns, fpIn, fpOut>>

\* The subscriber stops pulling (disconnect): the stream is dropped, and with
\* it the stream! block and the provider stream it owns.
SubscriptionCancel ==
    /\ mode = "subscription"
    /\ pc \in {"loop", "body"}
    /\ gen = "suspended"
    /\ gen' = "dropped"
    /\ item' = None
    /\ released' = TRUE
    /\ pc' = "cancelled"
    /\ UNCHANGED <<mode, history, conversation, request, opened, chan,
                   chanClosed, readLog, message, chunks, last_chunk, delivered,
                   result, panicAt>>
    /\ UNCHANGED <<turns, fpIn, fpOut>>

Next ==
    \/ ExtractContext
    \/ ExtractContextFail
    \/ GetChatResponseErr
    \/ Adapt
    \/ BuildRequest
    \/ CreateStream
    \/ CreateStreamFail
    \/ ProviderSend
    \/ ProviderClose
    \/ NextEvent
    \/ NextClosed
    \/ MutationBody
    \/ MutationReturn
    \/ SubscriptionForward
    \/ SubscriptionEnd
    \/ SubscriptionCancel

Spec == Init /\ [][Next]_vars

\* ------------------------------------------------------------------- claims
RECURSIVE Concat(_)
Concat(ts) == IF ts = <<>> THEN "" ELSE ts[1] \o Concat(Tail(ts))

\* The texts of the first n events of a log of content events.
TextsOf(log, n) == [i \in 1..n |-> Unwrap(log[i].content)]
ContentPositions(log) == {i \in 1..Len(log) : IsContent(log[i])}
EndPositions(log) == {i \in 1..Len(log) : IsEnd(log[i])}
FailPositions(log) == {i \in 1..Len(log) : IsFail(log[i])}

\* How the operation that runs the turn ended, as its caller sees it: an
\* abort is a panic that unwound it, with nothing returned.
Outcome ==
    CASE pc = "panicked" -> "abort"
      [] pc = "returned" /\ Unwrap(result).ok -> "chunk"
      [] pc = "returned" -> "error"
      [] pc = "ended" -> "end"
      [] pc = "cancelled" -> "cancelled"
      [] OTHER -> "running"

\* C1: when the provider events read so far are n content deltas d1..dn,
\* alone or followed by an end signal, the chunk sequence has exactly n
\* chunks, the i-th with delta = di and message = d1 ++ ... ++ di; a
\* subscriber has received a prefix of them, and all of them once the
\* sequence has ended.
C1_ChunksFollowDeltas ==
    /\ \A n \in 0..Len(readLog) :
         ( /\ \A i \in 1..n : IsContent(readLog[i])
           /\ \/ n = Len(readLog)
              \/ n + 1 = Len(readLog) /\ IsEnd(readLog[n + 1]) )
         => /\ Len(chunks) = n
            /\ \A i \in 1..n :
                 /\ chunks[i].delta = Unwrap(readLog[i].content)
                 /\ chunks[i].message = Concat(TextsOf(readLog, i))
    /\ Len(delivered) <= Len(chunks)
    /\ delivered = SubSeq(chunks, 1, Len(delivered))
    /\ pc = "ended" => delivered = chunks

C1_Witness ==
    /\ pc = "ended"
    /\ readLog = <<ContentEvent("a"), ContentEvent("bc"), EndEvent>>
    /\ Len(delivered) = 2
    /\ delivered[2].message = "abc"

\* C2: the chat mutation returns only after the chunk sequence has ended,
\* and when the sequence produced at least one chunk it returns its last
\* chunk.
C2_MutationReturnsLastChunk ==
    pc = "returned" =>
        /\ gen = "done"
        /\ chunks # <<>> => /\ Unwrap(result).ok
                            /\ Unwrap(result).chunk = Some(chunks[Len(chunks)])

C2_Witness ==
    /\ pc = "returned"
    /\ Len(chunks) = 3
    /\ Unwrap(result).chunk = Some(chunks[3])
    /\ chunks[3] # chunks[1]

\* C3: the chat mutation returns the LLMStreamError error exactly when the
\* chunk sequence ended without a chunk, and then it returns no chunk.
C3_EmptyStreamError ==
    pc = "returned" =>
        /\ (~Unwrap(result).ok) <=> (chunks = <<>>)
        /\ ~Unwrap(result).ok =>
              /\ Unwrap(result).error = "LLMStreamError"
              /\ Unwrap(result).chunk = None

C3_Witness ==
    /\ pc = "returned"
    /\ readLog = <<EndEvent>>
    /\ chunks = <<>>
    /\ Unwrap(result).error = "LLMStreamError"

\* The state once an end-of-turn event has been read.
C4_EndState ==
    \A i \in EndPositions(readLog) :
        /\ i = Len(readLog)
        /\ gen = "done"
        /\ Len(chunks) = Cardinality(ContentPositions(readLog))

\* C4: an end-of-turn event ends the chunk sequence: it is the last event
\* read, no chunk stands for it (the chunks are those of the content deltas
\* before it), and from then on no chunk is produced and no event is read,
\* whatever the provider has sent after it.
C4_EndTerminates ==
    /\ []C4_EndState
    /\ [][EndPositions(readLog) # {} =>
            chunks' = chunks /\ readLog' = readLog /\ delivered' = delivered]_vars

C4_Witness ==
    /\ readLog = <<ContentEvent("a"), EndEvent>>
    /\ chan = <<ContentEvent("bc")>>
    /\ pc = "ended"
    /\ Len(chunks) = 1

\* The tool call a consumer reconstructs for index k from the tool-call
\* deltas of a log: the parts supplied for k, the argument fragments of k
\* concatenated in arrival order.
ToolPositions(log, k) ==
    {i \in 1..Len(log) : IsTool(log[i]) /\ Unwrap(log[i].tool).index = k}
RECURSIVE ArgumentsOf(_, _)
ArgumentsOf(log, k) ==
    IF log = <<>> THEN ""
    ELSE LET ev == Head(log)
             frag == IF IsTool(ev) /\ Unwrap(ev.tool).index = k
                        /\ IsSome(Unwrap(ev.tool).arguments)
                     THEN Unwrap(Unwrap(ev.tool).arguments) ELSE ""
         IN  frag \o ArgumentsOf(Tail(log), k)
NamesOf(log, k) ==
    {Unwrap(log[i].tool).name : i \in ToolPositions(log, k)} \ {None}
ToolIndices == {td.index : td \in ToolDeltas}
Sent == readLog \o chan

\* C5: at stream end the last chunk carries, for every index k for which
\* the provider sent tool-call deltas, a tool call with the name supplied
\* for k and with the argument fragments of k concatenated in arrival order.
C5_ToolCallsReconstructed ==
    pc \in {"returned", "ended"} =>
        \A k \in ToolIndices :
            ToolPositions(Sent, k) # {} =>
                /\ chunks # <<>>
                /\ IsSome(chunks[Len(chunks)].tool_calls)
                /\ \E tc \in Unwrap(chunks[Len(chunks)].tool_calls) :
                     /\ Some(tc.function.name) \in NamesOf(Sent, k) \cup {None}
                     /\ tc.function.arguments = ArgumentsOf(Sent, k)

\* The state once the subscriber has stopped pulling.
C6_CancelState == pc = "cancelled" => released /\ gen = "dropped"

\* C6: once the subscriber has stopped pulling, the stream! block and the
\* provider stream it owns are dropped, and from then on no chunk is
\* produced or delivered and no provider event is read.
C6_CancelStops ==
    /\ []C6_CancelState
    /\ [][pc = "cancelled" =>
            /\ pc' = "cancelled"
            /\ chunks' = chunks
            /\ delivered' = delivered
            /\ readLog' = readLog
            /\ chan' = chan]_vars

C6_Witness ==
    /\ pc = "cancelled"
    /\ Len(delivered) = 2
    /\ chan # <<>>
    /\ IsContent(Head(chan))
    /\ released

\* C7: once a failure event of the provider stream has been read after at
\* least one chunk, no further event is read and no further chunk produced,
\* and the turn has ended with an error value its consumer received.
C7_FailureSignalled ==
    \A i \in FailPositions(readLog) :
        chunks # <<>> =>
            /\ i = Len(readLog)
            /\ Len(chunks) = Cardinality(ContentPositions(readLog))
            /\ Outcome = "error"

\* C8 (the delta is not the first event): an uninterpretable delta read
\* after the first event emits no chunk and leaves the chunk sequence
\* running, so that later content deltas are still emitted.
C8_UnknownSkipped ==
    \A i \in 2..Len(readLog) :
        IsUnknown(readLog[i]) =>
            /\ Len(chunks) >= Cardinality(ContentPositions(SubSeq(readLog, 1, i)))
            /\ i = Len(readLog) => gen = "suspended"

\* chat_response has mapped the history (line 131): the operation got past
\* extract_context and get_chat_response did not fail before it.
AdaptationRan == pc \notin {"start", "adapt"} /\ panicAt \notin {81, 97, 83, 99}
HistoryFails == \E i \in 1..Len(history) : message_to_chat_completion(history[i]).panic
\* C9: when a message of the history fails adaptation, the turn ends with
\* an error returned to its caller, no request is built from the remaining
\* messages, no provider stream is opened and no chunk is produced.
C9_AdaptFailureSurfaced ==
    HistoryFails /\ AdaptationRan =>
        /\ request = None
        /\ ~opened
        /\ chunks = <<>>
        /\ Outcome = "error"

\* The messages message_to_chat_completion has a match arm for.
Adaptable(m) ==
    /\ m.content.json = "object"
    /\ m.content.role \in {Some([str |-> TRUE, s |-> "user"]),
                           Some([str |-> TRUE, s |-> "assistant"])}

\* C10: message_to_chat_completion returns a turn exactly for an object
\* whose role is "user" or "assistant", with that role and the message's
\* content; for every other message it returns an error and no turn.
C10_AdaptationContract ==
    AdaptationRan =>
        \A i \in 1..Len(history) :
            LET m == history[i]
                out == AdaptAll(history)[i]
            IN  IF Adaptable(m)
                THEN /\ ~out.panic
                     /\ IsSome(out.value)
                     /\ Unwrap(out.value).role = Unwrap(m.content.role).s
                     /\ Unwrap(out.value).content = m.content.content
                ELSE /\ ~out.panic
                     /\ out.value = None
                     /\ panicAt = 0

\* C11: the cumulative message of each chunk of the turn is at least as
\* long as the cumulative message of the chunk before it, whatever events
\* the provider sent.
C11_MessageGrows ==
    \A i \in 1..(Len(chunks) - 1) :
        Len(chunks[i].message) <= Len(chunks[i + 1].message)

C11_Witness ==
    /\ readLog = <<ContentEvent("bc"), ContentEvent("a"), UnknownEvent>>
    /\ Len(chunks) = 2
    /\ Len(chunks[1].message) < Len(chunks[2].message)

\* The number of chunks the consumer of the chunk sequence has taken:
\* forwarded to the subscriber, or stored in last_chunk by the mutation.
ConsumedCount ==
    IF mode = "subscription" THEN Len(delivered)
    ELSE IF ~IsSome(last_chunk) THEN 0
    ELSE CHOOSE i \in 1..Len(chunks) : chunks[i] = Unwrap(last_chunk)

\* C12: at every point of the turn at most one chunk has been produced and
\* not yet taken by the consumer, and the events read from the provider are
\* at most one more than the chunks taken: the next event is read only once
\* the consumer asks for the next chunk.
C12_LazyProduction ==
    /\ Len(chunks) - ConsumedCount <= 1
    /\ Len(readLog) <= ConsumedCount + 1

C12_Witness ==
    /\ pc = "body"
    /\ Len(chan) = 2
    /\ Len(chunks) = 1
    /\ ConsumedCount = 0

\* The provider stream of the turn has ended: by an end signal or a failure
\* that was read, or by its close with nothing left to read.
StreamOver ==
    \/ EndPositions(readLog) # {}
    \/ FailPositions(readLog) # {}
    \/ chanClosed /\ chan = <<>>

\* C13: when the provider stream has ended and the chat mutation is no
\* longer in its loop, the mutation has finished: the chunk sequence is
\* exhausted and the mutation returned the last chunk or an error.
C13_DrainCompletes ==
    mode = "mutation" /\ opened /\ StreamOver /\ pc \notin {"loop", "body"} =>
        /\ pc = "returned"
        /\ gen = "done"
        /\ Outcome \in {"chunk", "error"}

\* The chat mutation failed: extract_context failed (line 81),
\* get_chat_response failed (line 83), the provider stream could not be
\* opened (line 168), or the stream ended without a chunk.
MutationFailed ==
    \/ panicAt \in {81, 83, 168}
    \/ pc = "returned" /\ chunks = <<>>

\* C18: every failure of the chat mutation is returned to the caller as an
\* error result; the mutation never aborts without returning one.
C18_MutationFailuresReturned ==
    mode = "mutation" /\ MutationFailed => Outcome = "error"

\* C19: the conversation of the request is the system turn followed by one
\* turn per history message, in history order, each with the role and the
\* content of its message; the provider stream is opened only once the
\* request is built.
C19_RequestConversation ==
    /\ opened => IsSome(request)
    /\ IsSome(request) =>
         LET msgs == Unwrap(request).messages
         IN  /\ Len(msgs) = Len(history) + 1
             /\ msgs[1] = SystemTurn
             /\ \A i \in 1..Len(history) :
                  /\ msgs[i + 1].role = Unwrap(history[i].content.role).s
                  /\ msgs[i + 1].content = history[i].content.content
                  /\ msgs[i + 1].variant # "System"

C19_Witness ==
    /\ opened
    /\ Len(history) = 2
    /\ Unwrap(history[1].content.role).s = "assistant"
    /\ Unwrap(history[2].content.role).s = "user"
    /\ Len(Unwrap(request).messages) = 3

\* ------------------------------------------------------- concurrent turns
\* Two calls of chat_response running concurrently on one engine: each call
\* has its own locals (the request, the stream create_stream returned, the
\* stream! block); the engine's client and configuration are only read.
MaxTurnEvents == 2
TurnIds == {1, 2}
TurnEvents == {ContentEvent(t) : t \in DeltaTexts} \cup {EndEvent, FailEvent}

\* Mutant: the provider stream is kept in the engine and shared by the calls.
StreamOf_Shared(t) == 1

\* The provider stream the stream! block of call t reads: the local
\* `response` its own create_stream returned.
StreamOf(t) == t

InitTurns ==
    /\ mode = "subscription"
    /\ history = <<>>
    /\ pc = "start"
    /\ conversation = <<>>
    /\ request = None
    /\ opened = FALSE
    /\ released = FALSE
    /\ chan = <<>>
    /\ chanClosed = FALSE
    /\ readLog = <<>>
    /\ gen = "none"
    /\ message = ""
    /\ item = None
    /\ chunks = <<>>
    /\ last_chunk = None
    /\ delivered = <<>>
    /\ result = None
    /\ panicAt = 0
    /\ turns = [stream |-> [s \in TurnIds |-> [sent |-> <<>>, cursor |-> 0]],
                call |-> [t \in TurnIds |->
                            [gen |-> "suspended", message |-> "",
                             chunks |-> <<>>, log |-> <<>>]]]
    /\ fpIn = None
    /\ fpOut = None

\* The provider of stream s sends one more event.
TurnSend ==
    /\ \E s \in TurnIds, ev \in TurnEvents :
         /\ Len(turns.stream[s].sent) < MaxTurnEvents
         /\ turns' = [turns EXCEPT !.stream[s].sent = Append(@, ev)]
    /\ UNCHANGED <<turnVars, fpIn, fpOut>>

\* The consumer of call t polls its chunk sequence and the stream! block of
\* the call reads the next event of its provider stream.
TurnNext ==
    /\ \E t \in TurnIds :
         LET s == StreamOf(t)
             st == turns.stream[s]
             c == turns.call[t]
         IN  /\ c.gen = "suspended"
             /\ st.cursor < Len(st.sent)
             /\ LET ev == st.sent[st.cursor + 1]
                    step == DeltaStep(ev)
                    chunk == MakeChunk(c.message, step.text)
                    after ==
                        CASE step.kind = "yield" ->
                               [c EXCEPT !.message = chunk.message,
                                         !.chunks = Append(@, chunk)]
                          [] step.kind = "break" -> [c EXCEPT !.gen = "done"]
                          [] OTHER -> [c EXCEPT !.gen = "panicked"]
                IN  turns' = [turns EXCEPT
                                !.stream[s].cursor = @ + 1,
                                !.call[t] = [after EXCEPT !.log = Append(@, ev)]]
    /\ UNCHANGED <<turnVars, fpIn, fpOut>>

NextTurns ==
    \/ TurnSend
    \/ TurnNext

SpecTurns == InitTurns /\ [][NextTurns]_vars

\* The chunks of a turn that runs alone on a sequence of provider events.
RECURSIVE ChunksAlone(_, _, _)
ChunksAlone(evs, prior, acc) ==
    IF evs = <<>> THEN acc
    ELSE LET step == DeltaStep(Head(evs))
             chunk == MakeChunk(prior, step.text)
         IN  IF step.kind = "yield"
             THEN ChunksAlone(Tail(evs), chunk.message, Append(acc, chunk))
             ELSE acc

\* C14: under every interleaving of two concurrent turns, each turn has
\* read a prefix of the events of its own provider stream and its chunks
\* are those of that prefix read by a turn running alone.
C14_TurnsIndependent ==
    \A t \in TurnIds :
        LET own == turns.stream[t].sent
            c == turns.call[t]
        IN  /\ Len(c.log) <= Len(own)
            /\ c.log = SubSeq(own, 1, Len(c.log))
            /\ c.chunks = ChunksAlone(c.log, "", <<>>)

C14_Witness ==
    /\ turns.stream[1].sent = <<ContentEvent("a"), ContentEvent("bc")>>
    /\ turns.stream[2].sent = <<ContentEvent("bc"), EndEvent>>
    /\ Len(turns.call[1].chunks) = 2
    /\ turns.call[1].chunks[2].message = "abc"
    /\ turns.call[2].gen = "done"
    /\ turns.call[2].chunks[1].message = "bc"

\* ------------------------------------------------------------ fingerprints
\* Tasks held by storage for acquire_tasks_fingerprints.
MaxTasks == 2
\* Fields in which the two tasks given to calculate_task_fingerprint may
\* differ from the base task.
MaxChanged == 1

\* A u32 as its two 16-bit halves, and `n as i32`: the same 32 bits read in
\* two's complement.
HalfWord == 65536
U32(h, l) == [hi |-> h, lo |-> l]
AsI32(n) ==
    IF n.hi >= HalfWord \div 2 THEN (n.hi - HalfWord) * HalfWord + n.lo
    ELSE n.hi * HalfWord + n.lo
U32Samples == {U32(0, 0), U32(0, 1), U32(0, 2), U32(32767, 65535),
               U32(32768, 0), U32(65535, 65535)}

\* JSON text of the values of a task, as serde_json writes them.
JsonString(str) == "\"" \o str \o "\""
JsonNumber(n) == ToString(n)
to_rfc3339(day) == "1970-01-0" \o ToString(day) \o "T00:00:00+00:00"
JsonDate(day) == JsonString(to_rfc3339(day))
JsonOptString(o) == IF IsSome(o) THEN JsonString(Unwrap(o)) ELSE "null"
JsonOptDate(o) == IF IsSome(o) THEN JsonDate(Unwrap(o)) ELSE "null"

\* The fields of Task, as the struct literal of acquire_tasks_fingerprints
\* lists them.
TaskFields == <<"id", "created_at", "updated_at", "title", "description",
                "status", "priority", "due_date", "project_id", "lead_id",
                "owner_id", "count", "parent_id">>
JsonField(task, f) ==
    CASE f \in {"id", "title", "status", "priority", "owner_id"} ->
           JsonString(task[f])
      [] f \in {"created_at", "updated_at"} -> JsonDate(task[f])
      [] f \in {"description", "project_id", "lead_id", "parent_id"} ->
           JsonOptString(task[f])
      [] f = "due_date" -> JsonOptDate(task[f])
      [] OTHER -> JsonNumber(task[f])
RECURSIVE JsonMembers(_, _)
JsonMembers(task, fields) ==
    IF fields = <<>> THEN ""
    ELSE JsonString(Head(fields)) \o ":" \o JsonField(task, Head(fields))
         \o (IF Len(fields) > 1 THEN "," ELSE "")
         \o JsonMembers(task, Tail(fields))

\* Mutant: a field is left out of the serialization.
calculate_task_fingerprint_OmitsCount(task) ==
    "{" \o JsonMembers(task, SelectSeq(TaskFields, LAMBDA f : f # "count")) \o "}"

\* serde_json::to_string(&task).unwrap()
calculate_task_fingerprint(task) == "{" \o JsonMembers(task, TaskFields) \o "}"

BaseTask ==
    [id |-> "t1", created_at |-> 1, updated_at |-> 1, title |-> "Buy milk",
     description |-> None, status |-> "ToDo", priority |-> "Low",
     due_date |-> None, project_id |-> Some("p1"), lead_id |-> None,
     owner_id |-> "m1", count |-> 0, parent_id |-> None]
FieldValues ==
    [id |-> {"t1", "t2", "t3"}, created_at |-> {1, 2}, updated_at |-> {1, 2},
     title |-> {"Buy milk", "null"},
     description |-> {None, Some("null"), Some("Buy milk")},
     status |-> {"ToDo", "Done"}, priority |-> {"Low", "High"},
     due_date |-> {None, Some(1)}, project_id |-> {None, Some("p1"), Some("p2")},
     lead_id |-> {None, Some("m1")}, owner_id |-> {"m1", "m2"},
     count |-> {0, 1}, parent_id |-> {None, Some("t1")}]
RECURSIVE TaskVariants(_)
TaskVariants(k) ==
    IF k = 0 THEN {BaseTask}
    ELSE LET prev == TaskVariants(k - 1)
         IN  prev \cup UNION {{[t EXCEPT ![f] = v] :
                                  t \in prev, v \in FieldValues[f]} :
                                f \in DOMAIN FieldValues}

\* Display of the status and priority of a suggestion.
EnumText(variant) == variant
Placeholder == "<suggest>"

\* Mutant: unwrap_or_default() instead of unwrap_or("<suggest>").
calculate_task_suggestion_fingerprint_EmptyUnset(task_suggestion) ==
    LET slot(o, Render(_)) == IF IsSome(o) THEN Render(Unwrap(o)) ELSE ""
        text(x) == x
    IN  <<"Task Title: ", slot(task_suggestion.title, text),
          "\n        Task Description: ", slot(task_suggestion.description, text),
          "\n        Task Status: ", slot(task_suggestion.status, EnumText),
          "\n        Task Priority: ", slot(task_suggestion.priority, EnumText),
          "\n        Task Due Date: ", slot(task_suggestion.due_date, to_rfc3339)>>

\* The format! of calculate_task_suggestion_fingerprint, as the sequence of
\* its literal pieces and its five arguments; the fingerprint is their
\* concatenation.
calculate_task_suggestion_fingerprint(task_suggestion) ==
    LET slot(o, Render(_)) == IF IsSome(o) THEN Render(Unwrap(o)) ELSE Placeholder
        text(x) == x
    IN  <<"Task Title: ", slot(task_suggestion.title, text),
          "\n        Task Description: ", slot(task_suggestion.description, text),
          "\n        Task Status: ", slot(task_suggestion.status, EnumText),
          "\n        Task Priority: ", slot(task_suggestion.priority, EnumText),
          "\n        Task Due Date: ", slot(task_suggestion.due_date, to_rfc3339)>>

SuggestionInputs ==
    [title : {None, Some("Buy milk")},
     description : {None, Some("two litres")},
     status : {None, Some("ToDo"), Some("Done")},
     priority : {None, Some("High")},
     due_date : {None, Some(1), Some(2)}]

\* Storage: get_tasks(filter) returns the stored tasks that match the
\* filter, at most filter.limit of them; a negative limit fails the query.
StoredTasks ==
    {[BaseTask EXCEPT !.id = "t1", !.project_id = Some("p1")],
     [BaseTask EXCEPT !.id = "t2", !.project_id = Some("p2")],
     [BaseTask EXCEPT !.id = "t3", !.project_id = None]}
Storages == UNION {[1..n -> StoredTasks] : n \in 0..MaxTasks}
Projects == {None, Some("p1"), Some("p2")}
GetTasks(storage, filter) ==
    LET matching ==
            SelectSeq(storage,
                      LAMBDA t : ~IsSome(filter.project_id)
                                 \/ t.project_id = filter.project_id)
    IN  IF filter.limit < 0 THEN [ok |-> FALSE, tasks |-> <<>>]
        ELSE [ok |-> TRUE,
              tasks |-> SubSeq(matching, 1,
                               IF filter.limit < Len(matching)
                               THEN filter.limit ELSE Len(matching))]

\* GetTasksInputBuilder::default().limit(number_of_tasks as i32).build().ok():
\* the project scope (_project_id) is not put into the filter.
TasksFilter(number_of_tasks, project_id) ==
    [limit |-> AsI32(number_of_tasks), project_id |-> None]

acquire_tasks_fingerprints(storage, number_of_tasks, project_id) ==
    LET filter == TasksFilter(number_of_tasks, project_id)
        got == GetTasks(storage, filter)
    IN  [filter |-> filter,
         panic |-> ~got.ok,
         fingerprints |-> [i \in 1..Len(got.tasks) |->
                             calculate_task_fingerprint(got.tasks[i])]]

InitFingerprints ==
    /\ mode = "subscription"
    /\ history = <<>>
    /\ pc = "start"
    /\ conversation = <<>>
    /\ request = None
    /\ opened = FALSE
    /\ released = FALSE
    /\ chan = <<>>
    /\ chanClosed = FALSE
    /\ readLog = <<>>
    /\ gen = "none"
    /\ message = ""
    /\ item = None
    /\ chunks = <<>>
    /\ last_chunk = None
    /\ delivered = <<>>
    /\ result = None
    /\ panicAt = 0
    /\ turns = <<>>
    /\ fpOut = None
    /\ \/ \E a \in TaskVariants(MaxChanged), b \in TaskVariants(MaxChanged) :
            fpIn = [op |-> "task", t1 |-> a, t2 |-> b]
       \/ \E i \in SuggestionInputs :
            fpIn = [op |-> "suggestion", input |-> i]
       \/ \E st \in Storages, n \in U32Samples, p \in Projects :
            fpIn = [op |-> "acquire", storage |-> st, number_of_tasks |-> n,
                    project_id |-> p]

FingerprintTasks ==
    /\ fpIn.op = "task"
    /\ fpOut = None
    /\ fpOut' = Some([f1 |-> calculate_task_fingerprint(fpIn.t1),
                      f2 |-> calculate_task_fingerprint(fpIn.t2)])
    /\ UNCHANGED <<turnVars, turns, fpIn>>

FingerprintSuggestion ==
    /\ fpIn.op = "suggestion"
    /\ fpOut = None
    /\ fpOut' = Some(calculate_task_suggestion_fingerprint(fpIn.input))
    /\ UNCHANGED <<turnVars, turns, fpIn>>

AcquireTasksFingerprints ==
    /\ fpIn.op = "acquire"
    /\ fpOut = None
    /\ fpOut' = Some(acquire_tasks_fingerprints(fpIn.storage,
                                                fpIn.number_of_tasks,
                                                fpIn.project_id))
    /\ UNCHANGED <<turnVars, turns, fpIn>>

NextFingerprints ==
    \/ FingerprintTasks
    \/ FingerprintSuggestion
    \/ AcquireTasksFingerprints

SpecFingerprints == InitFingerprints /\ [][NextFingerprints]_vars

\* ------------------------------------------------------ fingerprint claims
FpDone(op) == fpIn.op = op /\ IsSome(fpOut)
Range(seq) == {seq[i] : i \in DOMAIN seq}
LeqU32(k, n) == n.hi > 0 \/ k <= n.lo

\* C15: acquire_tasks_fingerprints returns at most number_of_tasks
\* fingerprints, each the fingerprint of a stored task, and when a project
\* scope is given only fingerprints of tasks of that project.
C15_FingerprintsWithinScope ==
    FpDone("acquire") /\ ~Unwrap(fpOut).panic =>
        LET fps == Unwrap(fpOut).fingerprints
        IN  /\ LeqU32(Len(fps), fpIn.number_of_tasks)
            /\ \A i \in DOMAIN fps :
                 \E t \in Range(fpIn.storage) :
                   /\ fps[i] = calculate_task_fingerprint(t)
                   /\ IsSome(fpIn.project_id) => t.project_id = fpIn.project_id

\* C16: calculate_task_fingerprint gives two tasks the same fingerprint
\* exactly when they agree on every field.
C16_FingerprintInjective ==
    FpDone("task") =>
        (Unwrap(fpOut).f1 = Unwrap(fpOut).f2 <=> fpIn.t1 = fpIn.t2)

C16_Witness ==
    /\ FpDone("task")
    /\ fpIn.t1 = BaseTask
    /\ fpIn.t2 = [BaseTask EXCEPT !.description = Some("null")]
    /\ Unwrap(fpOut).f1 # Unwrap(fpOut).f2

SuggestionLabels ==
    <<"Task Title: ", "\n        Task Description: ",
      "\n        Task Status: ", "\n        Task Priority: ",
      "\n        Task Due Date: ">>
SlotOf(fingerprint, k) == fingerprint[2 * k]
OptionalUnset(input) ==
    /\ input.description = None
    /\ input.status = None
    /\ input.priority = None
    /\ input.due_date = None

\* C17 as stated: with every optional field unset the suggestion
\* fingerprint holds the placeholder in every optional slot and the literal
\* title in the title slot.
C17_LiteralTitle ==
    FpDone("suggestion") /\ OptionalUnset(fpIn.input) =>
        LET fp == Unwrap(fpOut)
        IN  /\ \A k \in 2..5 : SlotOf(fp, k) = Placeholder
            /\ SlotOf(fp, 1) # Placeholder
            /\ IsSome(fpIn.input.title) => SlotOf(fp, 1) = Unwrap(fpIn.input.title)

\* C17 amended: the title is optional like the other four fields; the
\* fingerprint is the five labels in order, each followed by its field,
\* rendered when set and the placeholder when unset, the title slot included.
C17_PlaceholderInUnsetSlots ==
    FpDone("suggestion") =>
        LET fp == Unwrap(fpOut)
            input == fpIn.input
            expect(o, rendered) == IF o = None THEN Placeholder ELSE rendered
        IN  /\ Len(fp) = 2 * Len(SuggestionLabels)
            /\ \A k \in DOMAIN SuggestionLabels : fp[2 * k - 1] = SuggestionLabels[k]
            /\ SlotOf(fp, 1) = expect(input.title, input.title[1])
            /\ SlotOf(fp, 2) = expect(input.description, input.description[1])
            /\ SlotOf(fp, 3) = expect(input.status, EnumText(input.status[1]))
            /\ SlotOf(fp, 4) = expect(input.priority, EnumText(input.priority[1]))
            /\ SlotOf(fp, 5) = expect(input.due_date, to_rfc3339(input.due_date[1]))

C17_Witness ==
    /\ FpDone("suggestion")
    /\ OptionalUnset(fpIn.input)
    /\ fpIn.input.title = None
    /\ \A k \in 1..5 : SlotOf(Unwrap(fpOut), k) = Placeholder

\* C20: the limit handed to storage equals number_of_tasks and is never
\* negative, for every u32 value of number_of_tasks.
C20_LimitIsRequested ==
    FpDone("acquire") =>
        LET limit == Unwrap(fpOut).filter.limit
        IN  /\ limit >= 0
            /\ limit \div HalfWord = fpIn.number_of_tasks.hi
            /\ limit % HalfWord = fpIn.number_of_tasks.lo

====
